---- MODULE Spec2Model ----
(***************************************************************************)
(* Model of list_shared_files_and_folders.js: a resumable depth-first      *)
(* iteration over a Google Drive folder tree.  One script execution        *)
(* (main) prepares the iteration (prepareIteration), then repeatedly calls *)
(* listFilesAndFolders until the iterator is empty or the runtime budget   *)
(* is used up; in the latter case the iterator is persisted as JSON in the *)
(* user properties and a later execution resumes from it.                  *)
(*                                                                         *)
(* Strings that the script builds are modelled as sequences of pieces      *)
(* (a path "My Drive/sub" is <<"My Drive", "/", "sub">>), JSON texts as    *)
(* sequences of lexemes, continuation tokens as pairs <<folder, position>>.*)
(***************************************************************************)
EXTENDS Integers, Sequences, FiniteSets, TLC

VARIABLES
    drive,                \* the Drive tree: folder id -> folder (DriveApp)
    FORCE_NEW_ITERATION,  \* configuration constant, line 41
    START_FOLDER_PATH,    \* configuration constant, line 37 (path segments)
    userProperties,       \* the slot RECURSIVE_ITERATOR_KEY of the user properties
    sheet,                \* the active sheet of the report spreadsheet
    nSheets,              \* number of sheets inserted by createNewSheet so far
    pc,                   \* position of the script execution: "idle" or "loop"
    recursiveIterator,    \* main's local variable recursiveIterator
    elapsed,              \* elapsedTimeInMS of the running execution
    item,                 \* the file or folder handed to getSharingAccess last
    access,               \* the value getSharingAccess returned last
    lastStep,             \* what the last call of listFilesAndFolders did
    startMode,            \* the branch prepareIteration took in this execution
    outcome,              \* how the last execution ended
    hist,                 \* history: per-traversal counters of the kinds of step
    other                 \* the local variables of a second execution of main

vars == <<drive, FORCE_NEW_ITERATION, START_FOLDER_PATH, userProperties, sheet,
          nSheets, pc, recursiveIterator, elapsed, item, access, lastStep,
          startMode, outcome, hist, other>>

----------------------------------------------------------------------------
(* Bounds of the model *)

MaxFolders == 3
MaxFiles == 2
MaxSheets == 2
MaxRuns == 16
MaxStepMs == 240000
MaxUsers == 2

(* Program constants *)

MAX_EXECUTION_TIME_IN_MS == 4 * 60 * 1000

NULL == <<>>

EffectiveUser == "me"

----------------------------------------------------------------------------
(* Drive items and getSharingAccess *)

RECURSIVE AnyOther(_, _)
AnyOther(users, me) ==
    IF users = <<>> THEN FALSE
    ELSE IF Head(users) # me THEN TRUE
    ELSE AnyOther(Tail(users), me)

getSharingAccessNoEditors(it) ==
    IF it.access = "PRIVATE"
    THEN IF it.owner # EffectiveUser THEN "Shared"
         ELSE IF AnyOther(it.viewers, EffectiveUser) THEN "Shared"
         ELSE "Private"
    ELSE "Shared"

getSharingAccess(it) ==
    IF it.access = "PRIVATE"
    THEN IF it.owner # EffectiveUser THEN "Shared"
         ELSE IF AnyOther(it.viewers, EffectiveUser) THEN "Shared"
         ELSE IF AnyOther(it.editors, EffectiveUser) THEN "Shared"
         ELSE "Private"
    ELSE "Shared"

NoItem == [name |-> "", access |-> "", owner |-> "", viewers |-> <<>>, editors |-> <<>>]

----------------------------------------------------------------------------
(* The Drive tree.  A folder is [self, files, folders]: its own item data, *)
(* its files in listing order and the ids of its subfolders in listing     *)
(* order.  Folder 1 is the root folder.                                    *)

RootFolder == 1

PrivateItem(n) ==
    [name |-> n, access |-> "PRIVATE", owner |-> EffectiveUser,
     viewers |-> <<EffectiveUser>>, editors |-> <<>>]

SharedItem(n, k) ==
    CASE k % 4 = 0 -> [name |-> n, access |-> "ANYONE_WITH_LINK", owner |-> EffectiveUser,
                       viewers |-> <<>>, editors |-> <<>>]
      [] k % 4 = 1 -> [name |-> n, access |-> "PRIVATE", owner |-> "other",
                       viewers |-> <<>>, editors |-> <<EffectiveUser>>]
      [] k % 4 = 2 -> [name |-> n, access |-> "PRIVATE", owner |-> EffectiveUser,
                       viewers |-> <<EffectiveUser, "other">>, editors |-> <<>>]
      [] OTHER     -> [name |-> n, access |-> "PRIVATE", owner |-> EffectiveUser,
                       viewers |-> <<>>, editors |-> <<"other">>]

\* pattern 0: everything shared, 1: everything private, 2 and 3: alternating
PatternItem(pattern, n, k) ==
    IF pattern = 0 \/ (pattern = 2 /\ k % 2 = 0) \/ (pattern = 3 /\ k % 2 = 1)
    THEN SharedItem(n, k \div 2)
    ELSE PrivateItem(n)

FolderNameOf(f) == IF f = RootFolder THEN "My Drive" ELSE IF f % 2 = 0 THEN "sub" ELSE "docs"

FileNameOf(p) == IF p % 2 = 1 THEN "a.txt" ELSE "b.txt"

MakeDrive(n, parent, nfiles, pattern) ==
    [f \in 1..n |->
        [self    |-> PatternItem(pattern, FolderNameOf(f), f + 1),
         files   |-> [p \in 1..nfiles[f] |-> PatternItem(pattern, FileNameOf(p), 2 * f + p - 1)],
         folders |-> SelectSeq([i \in 1..n |-> i], LAMBDA i : i > 1 /\ parent[i] = f)]]

RECURSIVE SumTo(_, _)
SumTo(nfiles, n) == IF n = 0 THEN 0 ELSE nfiles[n] + SumTo(nfiles, n - 1)

\* every tree of at most MaxFolders folders holding at most MaxFiles files in all
GeneratedDrives ==
    UNION { { MakeDrive(n, parent, nfiles, pattern) :
                parent \in { q \in [1..n -> 0..n] : \A i \in 1..n : q[i] < i /\ (i > 1 => q[i] >= 1) },
                nfiles \in { nf \in [1..n -> 0..MaxFiles] : SumTo(nf, n) <= MaxFiles },
                pattern \in 0..3 } : n \in 1..MaxFolders }

\* the scenario tree: root holds a.txt (shared) and sub (private), sub holds b.txt (shared)
ScenarioDrive ==
    [f \in 1..2 |->
        IF f = 1
        THEN [self |-> PrivateItem("My Drive"), files |-> <<SharedItem("a.txt", 0)>>, folders |-> <<2>>]
        ELSE [self |-> PrivateItem("sub"), files |-> <<SharedItem("b.txt", 2)>>, folders |-> <<>>]]

DriveSet == GeneratedDrives \cup {ScenarioDrive}

----------------------------------------------------------------------------
(* Strings built by the script: sequences of pieces *)

RECURSIVE Join(_, _)
Join(names, sep) ==
    IF names = <<>> THEN <<>>
    ELSE IF Len(names) = 1 THEN <<names[1]>>
    ELSE <<names[1], sep>> \o Join(Tail(names), sep)

FolderNames(it) == [i \in 1..Len(it) |-> it[i].folderName]

----------------------------------------------------------------------------
(* Iterators of DriveApp: a continuation token <<f, p>> stands for the     *)
(* listing of folder f after its first p entries.                          *)

Token(f, p) == <<f, p>>

FileIteratorHasNext(d, tok) == tok[2] < Len(d[tok[1]].files)

FolderIteratorHasNext(d, tok) == tok[2] < Len(d[tok[1]].folders)

NextToken(tok) == Token(tok[1], tok[2] + 1)

makeIterationFromFolderNullFiles(d, f) ==
    [folderName |-> d[f].self.name,
     fileIteratorContinuationToken |-> NULL,
     folderIteratorContinuationToken |-> Token(f, 0)]

makeIterationFromFolder(d, f) ==
    [folderName |-> d[f].self.name,
     fileIteratorContinuationToken |-> Token(f, 0),
     folderIteratorContinuationToken |-> Token(f, 0)]

ReplaceBottom(it, frame) == [it EXCEPT ![1] = frame]

ReplaceTop(it, frame) == [it EXCEPT ![Len(it)] = frame]

PopKeep(it) == it

Pop(it) == SubSeq(it, 1, Len(it) - 1)

AppendRowAlways(rows, path, name, kind, acc) ==
    Append(rows, <<path \o <<name>>, kind, acc>>)

AppendRow(rows, path, name, kind, acc) ==
    IF acc # "Private" THEN Append(rows, <<path \o <<name>>, kind, acc>>) ELSE rows

(* One call of listFilesAndFolders on iterator it, with the sheet's rows.  *)
(* The result names what the call did (step), the iterator it returns, the *)
(* rows of the sheet afterwards, and the item it classified.               *)

\* a member that an object parsed from the slot does not have
UNDEFINED == <<"undefined">>

\* the iteration that JSON.parse makes of {}: no member is defined; the only
\* use of folderName is Array.prototype.join, which writes an undefined
\* element as the empty string
UndefinedIteration ==
    [folderName |-> "", fileIteratorContinuationToken |-> UNDEFINED,
     folderIteratorContinuationToken |-> UNDEFINED]

\* lines 273-274: undefined !== null, and DriveApp.continueFileIterator throws
\* on an argument that is no continuation token
InvalidToken(it, rows) ==
    [step |-> "throw", it |-> it, rows |-> rows, item |-> NoItem, access |-> "none"]

\* lines 322-323, and the TypeError of line 273 on an empty iterator
IteratorFailure(it, rows) ==
    [step |-> "throw", it |-> it, rows |-> rows, item |-> NoItem, access |-> "none"]

FileBranchAdvancesFolders(d, it, rows) ==
    LET currentIteration == it[Len(it)]
        ftok == currentIteration.fileIteratorContinuationToken
        path == Join(FolderNames(it), "/")
    IN  IF FileIteratorHasNext(d, ftok)
        THEN LET file == d[ftok[1]].files[ftok[2] + 1]
                 acc  == getSharingAccess(file)
             IN  [step |-> "file",
                  it |-> ReplaceTop(it, [currentIteration EXCEPT
                            !.fileIteratorContinuationToken = NextToken(ftok)]),
                  rows |-> AppendRow(rows, path, file.name, "File", acc),
                  item |-> file, access |-> acc]
        ELSE [step |-> "filesDone",
              it |-> ReplaceTop(it, [currentIteration EXCEPT
                        !.fileIteratorContinuationToken = NULL,
                        !.folderIteratorContinuationToken = NextToken(@)]),
              rows |-> rows, item |-> NoItem, access |-> "none"]

\* lines 273-296
FileBranch(d, it, rows) ==
    LET currentIteration == it[Len(it)]
        ftok == currentIteration.fileIteratorContinuationToken
        path == Join(FolderNames(it), "/")
    IN  IF FileIteratorHasNext(d, ftok)
        THEN LET file == d[ftok[1]].files[ftok[2] + 1]
                 acc  == getSharingAccess(file)
             IN  [step |-> "file",
                  it |-> ReplaceTop(it, [currentIteration EXCEPT
                            !.fileIteratorContinuationToken = NextToken(ftok)]),
                  rows |-> AppendRow(rows, path, file.name, "File", acc),
                  item |-> file, access |-> acc]
        ELSE [step |-> "filesDone",
              it |-> ReplaceTop(it, [currentIteration EXCEPT
                        !.fileIteratorContinuationToken = NULL]),
              rows |-> rows, item |-> NoItem, access |-> "none"]

FolderBranchSkipPrivate(d, it, rows) ==
    LET currentIteration == it[Len(it)]
        dtok == currentIteration.folderIteratorContinuationToken
        path == Join(FolderNames(it), "/")
    IN  IF FolderIteratorHasNext(d, dtok)
        THEN LET folder == d[dtok[1]].folders[dtok[2] + 1]
                 acc    == getSharingAccess(d[folder].self)
                 advanced == ReplaceTop(it, [currentIteration EXCEPT
                                !.folderIteratorContinuationToken = NextToken(dtok)])
             IN  [step |-> "folder",
                  it |-> IF acc = "Private" THEN advanced
                         ELSE Append(advanced, makeIterationFromFolder(d, folder)),
                  rows |-> AppendRow(rows, path, d[folder].self.name, "Folder", acc),
                  item |-> d[folder].self, access |-> acc]
        ELSE [step |-> "pop", it |-> Pop(it), rows |-> rows,
              item |-> NoItem, access |-> "none"]

FolderBranchNullsToken(d, it, rows) ==
    LET currentIteration == it[Len(it)]
        dtok == currentIteration.folderIteratorContinuationToken
        path == Join(FolderNames(it), "/")
    IN  IF FolderIteratorHasNext(d, dtok)
        THEN LET folder == d[dtok[1]].folders[dtok[2] + 1]
                 acc    == getSharingAccess(d[folder].self)
             IN  [step |-> "folder",
                  it |-> Append(ReplaceTop(it, [currentIteration EXCEPT
                            !.folderIteratorContinuationToken = NextToken(dtok)]),
                            makeIterationFromFolder(d, folder)),
                  rows |-> AppendRow(rows, path, d[folder].self.name, "Folder", acc),
                  item |-> d[folder].self, access |-> acc]
        ELSE [step |-> "filesDone",
              it |-> ReplaceTop(it, [currentIteration EXCEPT
                        !.folderIteratorContinuationToken = NULL]),
              rows |-> rows, item |-> NoItem, access |-> "none"]

\* lines 298-320
FolderBranch(d, it, rows) ==
    LET currentIteration == it[Len(it)]
        dtok == currentIteration.folderIteratorContinuationToken
        path == Join(FolderNames(it), "/")
    IN  IF FolderIteratorHasNext(d, dtok)
        THEN LET folder == d[dtok[1]].folders[dtok[2] + 1]
                 acc    == getSharingAccess(d[folder].self)
             IN  [step |-> "folder",
                  it |-> Append(ReplaceTop(it, [currentIteration EXCEPT
                            !.folderIteratorContinuationToken = NextToken(dtok)]),
                            makeIterationFromFolder(d, folder)),
                  rows |-> AppendRow(rows, path, d[folder].self.name, "Folder", acc),
                  item |-> d[folder].self, access |-> acc]
        ELSE [step |-> "pop", it |-> Pop(it), rows |-> rows,
              item |-> NoItem, access |-> "none"]

listFoldersFirst(d, it, rows) ==
    IF it = <<>> THEN IteratorFailure(it, rows)
    ELSE LET top == it[Len(it)]
         IN  IF /\ top.folderIteratorContinuationToken # NULL
                /\ FolderIteratorHasNext(d, top.folderIteratorContinuationToken)
             THEN FolderBranch(d, it, rows)
             ELSE IF top.fileIteratorContinuationToken # NULL THEN FileBranch(d, it, rows)
             ELSE IF top.folderIteratorContinuationToken # NULL THEN FolderBranch(d, it, rows)
             ELSE IteratorFailure(it, rows)

listFilesAndFolders(d, it, rows) ==
    IF it = <<>> THEN IteratorFailure(it, rows)
    ELSE IF it[Len(it)].fileIteratorContinuationToken = UNDEFINED THEN InvalidToken(it, rows)
    ELSE IF it[Len(it)].fileIteratorContinuationToken # NULL THEN FileBranch(d, it, rows)
    ELSE IF it[Len(it)].folderIteratorContinuationToken # NULL THEN FolderBranch(d, it, rows)
    ELSE IteratorFailure(it, rows)

----------------------------------------------------------------------------
(* JSON.  A text is a sequence of lexemes <<kind, string, token>>.         *)

Punct(k) == <<k, "", NULL>>
Key(k) == <<"key", k, NULL>>
StrLex(s) == <<"str", s, NULL>>
TokLex(t) == IF t = NULL THEN <<"null", "", NULL>> ELSE <<"tok", "", t>>

FrameLen == 13

StringifyFrame(fr) ==
    << Punct("{"), Key("folderName"), Punct(":"), StrLex(fr.folderName), Punct(","),
       Key("fileIteratorContinuationToken"), Punct(":"),
       TokLex(fr.fileIteratorContinuationToken), Punct(","),
       Key("folderIteratorContinuationToken"), Punct(":"),
       TokLex(fr.folderIteratorContinuationToken), Punct("}") >>

RECURSIVE StringifyFrames(_)
StringifyFrames(it) ==
    IF it = <<>> THEN <<>>
    ELSE IF Len(it) = 1 THEN StringifyFrame(it[1])
    ELSE StringifyFrame(it[1]) \o <<Punct(",")>> \o StringifyFrames(Tail(it))

JSON_stringifyTopOnly(it) ==
    <<Punct("[")>> \o (IF it = <<>> THEN <<>> ELSE StringifyFrame(it[Len(it)])) \o <<Punct("]")>>

JSON_stringify(it) == <<Punct("[")>> \o StringifyFrames(it) \o <<Punct("]")>>

IsTokOrNull(lx) == lx[1] \in {"tok", "null"}

LexTok(lx) == IF lx[1] = "null" THEN NULL ELSE lx[3]

\* text[i .. i+12] is an object with the three members of an iteration
IsFrameAt(text, i) ==
    /\ i + FrameLen - 1 <= Len(text)
    /\ text[i] = Punct("{")
    /\ text[i + 1] = Key("folderName")
    /\ text[i + 2] = Punct(":")
    /\ text[i + 3][1] = "str"
    /\ text[i + 4] = Punct(",")
    /\ text[i + 5] = Key("fileIteratorContinuationToken")
    /\ text[i + 6] = Punct(":")
    /\ IsTokOrNull(text[i + 7])
    /\ text[i + 8] = Punct(",")
    /\ text[i + 9] = Key("folderIteratorContinuationToken")
    /\ text[i + 10] = Punct(":")
    /\ IsTokOrNull(text[i + 11])
    /\ text[i + 12] = Punct("}")

FrameAtSwapped(text, i) ==
    [folderName |-> text[i + 3][2],
     fileIteratorContinuationToken |-> LexTok(text[i + 11]),
     folderIteratorContinuationToken |-> LexTok(text[i + 7])]

FrameAt(text, i) ==
    [folderName |-> text[i + 3][2],
     fileIteratorContinuationToken |-> LexTok(text[i + 7]),
     folderIteratorContinuationToken |-> LexTok(text[i + 11])]

\* the number of elements of a well-formed array text of iterations, else -1
ArrayCount(text) ==
    IF Len(text) < 2 \/ text[1] # Punct("[") \/ text[Len(text)] # Punct("]") THEN -1
    ELSE IF Len(text) = 2 THEN 0
    ELSE IF (Len(text) - 1) % (FrameLen + 1) # 0 THEN -1
    ELSE LET k == (Len(text) - 1) \div (FrameLen + 1)
         IN  IF /\ \A j \in 1..k : IsFrameAt(text, 2 + (FrameLen + 1) * (j - 1))
                /\ \A j \in 1..(k - 1) : text[1 + (FrameLen + 1) * j] = Punct(",")
             THEN k ELSE -1

(* JSON.parse of a property value.  The result is [kind, val]: "null",     *)
(* "array" (val holds the iterations), "object" (a value that is no array) *)
(* or "SyntaxError" (the call throws).                                     *)
JSON_parse_text(text) ==
    IF text = <<Punct("null")>> THEN [kind |-> "null", val |-> <<>>]
    ELSE IF text = <<Punct("{"), Punct("}")>> THEN [kind |-> "object", val |-> <<>>]
    ELSE IF text = <<Punct("["), Punct("{"), Punct("}"), Punct("]")>>
    THEN [kind |-> "array", val |-> <<UndefinedIteration>>]
    ELSE IF ArrayCount(text) >= 0
    THEN [kind |-> "array",
          val |-> [j \in 1..ArrayCount(text) |-> FrameAt(text, 2 + (FrameLen + 1) * (j - 1))]]
    ELSE [kind |-> "SyntaxError", val |-> <<>>]

\* a property is [present, text]; getProperty gives null for an absent one,
\* and JSON.parse(null) parses the text "null"
Absent == [present |-> FALSE, text |-> <<>>]
Property(text) == [present |-> TRUE, text |-> text]

JSON_parse(prop) ==
    IF prop.present THEN JSON_parse_text(prop.text) ELSE JSON_parse_text(<<Punct("null")>>)

----------------------------------------------------------------------------
(* The report sheet: the status cells B2 (runs) and B3 (finished) and the  *)
(* rows appended below them, the header row first.                         *)

HeaderRow == << <<"Name">>, "Type", "Shared" >>

BlankSheet == [rows |-> <<>>, runs |-> 0, finished |-> ""]

createNewSheet == [rows |-> <<HeaderRow>>, runs |-> 1, finished |-> "running"]

updateSheetKeepRuns(sh) == [sh EXCEPT !.finished = "running"]

updateSheet(sh) == [sh EXCEPT !.runs = @ + 1, !.finished = "running"]

----------------------------------------------------------------------------
(* getFolderByPath: 0 stands for the null it returns for an unknown folder *)

RECURSIVE Split(_, _)
Split(pieces, sep) ==
    IF pieces = <<>> THEN <<"">>
    ELSE IF Head(pieces) = sep THEN <<"">> \o Split(Tail(pieces), sep)
    ELSE IF Len(pieces) = 1 THEN <<Head(pieces)>>
    ELSE <<Head(pieces)>> \o Split(Tail(Tail(pieces)), sep)

\* getFoldersByName(name) of folder f: the subfolders of that name, in order
FoldersByName(d, f, name) == SelectSeq(d[f].folders, LAMBDA c : d[c].self.name = name)

RECURSIVE WalkPath(_, _, _)
WalkPath(d, currentFolder, folders) ==
    IF folders = <<>> THEN currentFolder
    ELSE LET subfolders == FoldersByName(d, currentFolder, Head(folders))
         IN  IF subfolders # <<>> THEN WalkPath(d, Head(subfolders), Tail(folders))
             ELSE 0

getFolderByPath(d, path) == WalkPath(d, RootFolder, Split(path, "/"))

----------------------------------------------------------------------------
(* prepareIteration: the start mode it selects, the iterator it returns    *)
(* and the sheet it leaves.  Mode "throw": the call throws (JSON.parse of  *)
(* a malformed text, map on a value that is no array, getName of null).    *)

ThrownAfterFlag(sh) ==
    [mode |-> "throw", it |-> <<>>, sheet |-> [sh EXCEPT !.finished = "no"], created |-> 0]

Thrown(sh) == [mode |-> "throw", it |-> <<>>, sheet |-> sh, created |-> 0]

prepareIterationResumeFirst(d, force, path, prop, sh) ==
    LET parsed == JSON_parse(prop)
    IN  IF parsed.kind = "SyntaxError" THEN Thrown(sh)
        ELSE IF parsed.kind = "array"
        THEN [mode |-> "resume", it |-> parsed.val, sheet |-> updateSheet(sh), created |-> 0]
        ELSE [mode |-> "fresh", it |-> <<makeIterationFromFolder(d, RootFolder)>>,
              sheet |-> createNewSheet, created |-> 1]

prepareIterationPathResumes(d, force, path, prop, sh) ==
    LET parsed == JSON_parse(prop)
    IN  IF parsed.kind = "SyntaxError" THEN Thrown(sh)
        ELSE IF force = TRUE
        THEN [mode |-> "force", it |-> <<makeIterationFromFolder(d, RootFolder)>>,
              sheet |-> createNewSheet, created |-> 1]
        ELSE IF parsed.kind # "null"
        THEN IF parsed.kind # "array" THEN Thrown(sh)
             ELSE [mode |-> "resume", it |-> parsed.val, sheet |-> updateSheet(sh),
                   created |-> 0]
        ELSE IF path # <<>>
        THEN LET folder == getFolderByPath(d, path)
             IN  IF folder = 0 THEN Thrown(sh)
                 ELSE [mode |-> "path", it |-> <<makeIterationFromFolder(d, folder)>>,
                       sheet |-> createNewSheet, created |-> 1]
        ELSE [mode |-> "fresh", it |-> <<makeIterationFromFolder(d, RootFolder)>>,
              sheet |-> createNewSheet, created |-> 1]

prepareIteration(d, force, path, prop, sh) ==
    LET parsed == JSON_parse(prop)
    IN  IF parsed.kind = "SyntaxError" THEN Thrown(sh)
        ELSE IF force = TRUE
        THEN [mode |-> "force", it |-> <<makeIterationFromFolder(d, RootFolder)>>,
              sheet |-> createNewSheet, created |-> 1]
        ELSE IF path # <<>>
        THEN LET folder == getFolderByPath(d, path)
             IN  IF folder = 0 THEN Thrown(sh)
                 ELSE [mode |-> "path", it |-> <<makeIterationFromFolder(d, folder)>>,
                       sheet |-> createNewSheet, created |-> 1]
        ELSE IF parsed.kind # "null"
        THEN IF parsed.kind # "array" THEN Thrown(sh)
             ELSE [mode |-> "resume", it |-> parsed.val, sheet |-> updateSheet(sh),
                   created |-> 0]
        ELSE [mode |-> "fresh", it |-> <<makeIterationFromFolder(d, RootFolder)>>,
              sheet |-> createNewSheet, created |-> 1]

----------------------------------------------------------------------------
(* The script execution *)

\* history of the running traversal: the calls of listFilesAndFolders, how
\* many changed a file cursor, pushed an iteration or popped one, the
\* entries <<kind, folder, index>> consumed, in order, and the number of
\* executions of main that worked on the traversal; whether an execution
\* started while another one was in its loop (overlap), whether the slot holds
\* a text no execution has read yet (unread), and whether such a text was
\* overwritten or deleted (lost)
NoHist ==
    [steps |-> 0, leaf |-> 0, child |-> 0, pop |-> 0, visited |-> <<>>, execs |-> 0,
     overlap |-> FALSE, unread |-> FALSE, lost |-> FALSE]

\* history after setProperty, and after deleteProperty
Written(h) == [h EXCEPT !.lost = @ \/ h.unread, !.unread = TRUE]
Deleted(h) == [h EXCEPT !.lost = @ \/ h.unread, !.unread = FALSE]

\* a second execution of main that is not running
OtherIdle ==
    [pc |-> "idle", recursiveIterator |-> <<>>, elapsed |-> 0, calls |-> 0,
     outcome |-> "none"]

Consumed(it) ==
    LET top == it[Len(it)]
        ftok == top.fileIteratorContinuationToken
        dtok == top.folderIteratorContinuationToken
    IN  IF ftok = UNDEFINED THEN <<>>
        ELSE IF ftok # NULL
        THEN IF ftok[2] < Len(drive[ftok[1]].files)
             THEN << <<"File", ftok[1], ftok[2] + 1>> >> ELSE <<>>
        ELSE IF dtok # NULL /\ dtok[2] < Len(drive[dtok[1]].folders)
             THEN << <<"Folder", dtok[1], dtok[2] + 1>> >> ELSE <<>>

Observe(h, before, after) ==
    [steps   |-> h.steps + 1,
     leaf    |-> h.leaf + (IF /\ Len(after) = Len(before)
                              /\ after[Len(after)].fileIteratorContinuationToken
                                   # before[Len(before)].fileIteratorContinuationToken
                           THEN 1 ELSE 0),
     child   |-> h.child + (IF Len(after) = Len(before) + 1 THEN 1 ELSE 0),
     pop     |-> h.pop + (IF Len(after) = Len(before) - 1 THEN 1 ELSE 0),
     visited |-> h.visited \o Consumed(before),
     execs   |-> h.execs,
     overlap |-> h.overlap, unread |-> h.unread, lost |-> h.lost]

\* the time one call of listFilesAndFolders can take: none, or enough to
\* reach the budget
StepDurations == {0, MaxStepMs}

\* main, lines 113-126: the execution starts and prepares the iteration
MainPrepare ==
    /\ pc = "idle"
    /\ LET r == prepareIteration(drive, FORCE_NEW_ITERATION, START_FOLDER_PATH,
                                 userProperties, sheet)
       IN  /\ nSheets + r.created <= MaxSheets
           /\ r.sheet.runs <= MaxRuns
           /\ startMode' = r.mode
           /\ sheet' = r.sheet
           /\ nSheets' = nSheets + r.created
           /\ recursiveIterator' = r.it
           /\ pc' = IF r.mode = "throw" THEN "idle" ELSE "loop"
           /\ outcome' = IF r.mode = "throw" THEN "error" ELSE "none"
           /\ hist' = IF r.created = 1 THEN [NoHist EXCEPT !.execs = 1]
                      ELSE IF r.mode = "throw" THEN hist
                      ELSE [hist EXCEPT !.execs = @ + 1,
                                        !.overlap = @ \/ other.pc = "loop",
                                        !.unread = FALSE]
    /\ elapsed' = 0
    /\ lastStep' = "none"
    /\ item' = NoItem
    /\ access' = "none"
    /\ UNCHANGED <<other, drive, FORCE_NEW_ITERATION, START_FOLDER_PATH, userProperties>>

PassChecksFirst(ms) ==
    /\ pc = "loop"
    /\ Len(recursiveIterator) > 0
    /\   LET elapsedTimeInMS == elapsed + ms
             timeLimitExceeded == elapsedTimeInMS >= MAX_EXECUTION_TIME_IN_MS
             r == IF timeLimitExceeded
                  THEN [step |-> lastStep, it |-> recursiveIterator, rows |-> sheet.rows,
                        item |-> item, access |-> access]
                  ELSE listFilesAndFolders(drive, recursiveIterator, sheet.rows)
         IN  /\ lastStep' = r.step
             /\ item' = r.item
             /\ access' = r.access
             /\ hist' = IF timeLimitExceeded THEN Written(hist)
                        ELSE Observe(hist, recursiveIterator, r.it)
             /\ recursiveIterator' = r.it
             /\ IF r.step = "throw"
                THEN /\ pc' = "idle"
                     /\ outcome' = "error"
                     /\ UNCHANGED <<sheet, userProperties, elapsed>>
                ELSE IF timeLimitExceeded
                THEN /\ userProperties' = Property(JSON_stringify(r.it))
                     /\ sheet' = [sheet EXCEPT !.rows = r.rows, !.finished = "no"]
                     /\ pc' = "idle"
                     /\ outcome' = "suspended"
                     /\ elapsed' = elapsedTimeInMS
                ELSE /\ sheet' = [sheet EXCEPT !.rows = r.rows]
                     /\ pc' = "loop"
                     /\ outcome' = "none"
                     /\ elapsed' = elapsedTimeInMS
                     /\ UNCHANGED userProperties
    /\ UNCHANGED <<other, drive, FORCE_NEW_ITERATION, START_FOLDER_PATH, nSheets, startMode>>

\* main, lines 128-141: one pass of the while loop, its call taking ms
Pass(ms) ==
    /\ pc = "loop"
    /\ Len(recursiveIterator) > 0
    /\   LET r == listFilesAndFolders(drive, recursiveIterator, sheet.rows)
             elapsedTimeInMS == elapsed + ms
             timeLimitExceeded == elapsedTimeInMS >= MAX_EXECUTION_TIME_IN_MS
         IN  /\ lastStep' = r.step
             /\ item' = r.item
             /\ access' = r.access
             /\ hist' = IF r.step # "throw" /\ timeLimitExceeded
                        THEN Written(Observe(hist, recursiveIterator, r.it))
                        ELSE Observe(hist, recursiveIterator, r.it)
             /\ recursiveIterator' = r.it
             /\ IF r.step = "throw"
                THEN /\ pc' = "idle"
                     /\ outcome' = "error"
                     /\ UNCHANGED <<sheet, userProperties, elapsed>>
                ELSE IF timeLimitExceeded
                THEN /\ userProperties' = Property(JSON_stringify(r.it))
                     /\ sheet' = [sheet EXCEPT !.rows = r.rows, !.finished = "no"]
                     /\ pc' = "idle"
                     /\ outcome' = "suspended"
                     /\ elapsed' = elapsedTimeInMS
                ELSE /\ sheet' = [sheet EXCEPT !.rows = r.rows]
                     /\ pc' = "loop"
                     /\ outcome' = "none"
                     /\ elapsed' = elapsedTimeInMS
                     /\ UNCHANGED userProperties
    /\ UNCHANGED <<other, drive, FORCE_NEW_ITERATION, START_FOLDER_PATH, nSheets, startMode>>

MainStep == \E ms \in StepDurations : Pass(ms)

MainFinishKeepsProperty ==
    /\ pc = "loop"
    /\ Len(recursiveIterator) = 0
    /\ sheet' = [sheet EXCEPT !.finished = "yes"]
    /\ pc' = "idle"
    /\ outcome' = "finished"
    /\ hist' = Deleted(hist)
    /\ UNCHANGED <<other, drive, FORCE_NEW_ITERATION, START_FOLDER_PATH, nSheets,
                   userProperties, recursiveIterator, elapsed, item, access, lastStep,
                   startMode>>

\* main, lines 128 and 143-145: the loop ends on an empty iterator
MainFinish ==
    /\ pc = "loop"
    /\ Len(recursiveIterator) = 0
    /\ userProperties' = Absent
    /\ sheet' = [sheet EXCEPT !.finished = "yes"]
    /\ pc' = "idle"
    /\ outcome' = "finished"
    /\ hist' = Deleted(hist)
    /\ UNCHANGED <<other, drive, FORCE_NEW_ITERATION, START_FOLDER_PATH, nSheets,
                   recursiveIterator, elapsed, item, access, lastStep, startMode>>

Init ==
    /\ drive \in DriveSet
    /\ FORCE_NEW_ITERATION = FALSE
    /\ START_FOLDER_PATH = <<>>
    /\ userProperties = Absent
    /\ sheet = BlankSheet
    /\ nSheets = 0
    /\ pc = "idle"
    /\ recursiveIterator = <<>>
    /\ elapsed = 0
    /\ item = NoItem
    /\ access = "none"
    /\ lastStep = "none"
    /\ startMode = "none"
    /\ outcome = "none"
    /\ hist = NoHist
    /\ other = OtherIdle

Next == MainPrepare \/ MainStep \/ MainFinish

Spec == Init /\ [][Next]_vars

\* executions whose calls take no time: the budget is never reached.  The
\* while loop of main runs on while its condition holds.
NextUnlimited == MainPrepare \/ Pass(0) \/ MainFinish

SpecUnlimited ==
    Init /\ [][NextUnlimited]_vars /\ WF_vars(Pass(0)) /\ WF_vars(MainFinish)

----------------------------------------------------------------------------
(* Executions under every configuration and content of the checkpoint slot *)

MaxPersistedSteps == 4

\* a chain My Drive / sub / docs with a file in the first two folders
ChainDrive == MakeDrive(3, <<0, 1, 2>>, <<1, 1, 0>>, 2)

CfgDriveSet == {ScenarioDrive, ChainDrive}

PathSet == { <<>>, <<"sub">>, <<"sub", "/", "docs">>, <<"nope">>, <<"sub", "/", "nope">> }

\* iterator and rows after k calls of an uninterrupted run from the root
RECURSIVE Progress(_, _)
Progress(d, k) ==
    IF k = 0
    THEN [it |-> <<makeIterationFromFolder(d, RootFolder)>>, rows |-> <<HeaderRow>>]
    ELSE LET before == Progress(d, k - 1)
             r == listFilesAndFolders(d, before.it, before.rows)
         IN  IF before.it = <<>> THEN before ELSE [it |-> r.it, rows |-> r.rows]

ExhaustedIteration ==
    [folderName |-> "My Drive", fileIteratorContinuationToken |-> NULL,
     folderIteratorContinuationToken |-> NULL]

\* slot contents: none, the text of an iterator an execution persisted after
\* k calls, the empty list, a truncated text, an object, a list of an object
\* without members, an iteration with both cursors null, and one below the
\* untouched iteration of the first subfolder
SlotSet(d) ==
    {Absent}
    \cup { Property(JSON_stringify(Progress(d, k).it)) : k \in 1..MaxPersistedSteps }
    \cup { Property(JSON_stringify(<<>>)),
           Property(<<Punct("[")>>),
           Property(<<Punct("{"), Punct("}")>>),
           Property(<<Punct("["), Punct("{"), Punct("}"), Punct("]")>>),
           Property(JSON_stringify(<<ExhaustedIteration>>)),
           Property(JSON_stringify(<<ExhaustedIteration, makeIterationFromFolder(d, 2)>>)) }

\* the sheet that goes with a slot content: the one of the suspended iteration
SheetOf(d, prop) ==
    IF prop = Absent THEN BlankSheet
    ELSE IF \E k \in 1..MaxPersistedSteps : prop = Property(JSON_stringify(Progress(d, k).it))
    THEN LET k == CHOOSE j \in 1..MaxPersistedSteps :
                      prop = Property(JSON_stringify(Progress(d, j).it))
         IN  [rows |-> Progress(d, k).rows, runs |-> 1, finished |-> "no"]
    ELSE [rows |-> <<HeaderRow>>, runs |-> 1, finished |-> "no"]

InitCfg ==
    /\ drive \in CfgDriveSet
    /\ FORCE_NEW_ITERATION \in BOOLEAN
    /\ START_FOLDER_PATH \in PathSet
    /\ userProperties \in SlotSet(drive)
    /\ sheet = SheetOf(drive, userProperties)
    /\ nSheets = IF userProperties = Absent THEN 0 ELSE 1
    /\ pc = "idle"
    /\ recursiveIterator = <<>>
    /\ elapsed = 0
    /\ item = NoItem
    /\ access = "none"
    /\ lastStep = "none"
    /\ startMode = "none"
    /\ outcome = "none"
    /\ hist = NoHist
    /\ other = OtherIdle

SpecCfg == InitCfg /\ [][Next]_vars

----------------------------------------------------------------------------
(* getSharingAccess applied to every item over bounded sets *)

Users == {EffectiveUser, "other"}

AccessLevels == {"PRIVATE", "ANYONE", "ANYONE_WITH_LINK", "DOMAIN", "DOMAIN_WITH_LINK"}

UserLists == UNION { [1..n -> Users] : n \in 0..MaxUsers }

ItemSet ==
    [name : {"a.txt"}, access : AccessLevels, owner : Users,
     viewers : UserLists, editors : UserLists]

InitClassify ==
    /\ item \in ItemSet
    /\ access = "none"
    /\ drive = ScenarioDrive
    /\ FORCE_NEW_ITERATION = FALSE
    /\ START_FOLDER_PATH = <<>>
    /\ userProperties = Absent
    /\ sheet = BlankSheet
    /\ nSheets = 0
    /\ pc = "idle"
    /\ recursiveIterator = <<>>
    /\ elapsed = 0
    /\ lastStep = "none"
    /\ startMode = "none"
    /\ outcome = "none"
    /\ hist = NoHist
    /\ other = OtherIdle

\* getSharingAccess(item), lines 327-357
Classify ==
    /\ access = "none"
    /\ access' = getSharingAccess(item)
    /\ UNCHANGED <<other, drive, FORCE_NEW_ITERATION, START_FOLDER_PATH, userProperties, sheet,
                   nSheets, pc, recursiveIterator, elapsed, item, lastStep, startMode,
                   outcome, hist>>

NextClassify == Classify

SpecClassify == InitClassify /\ [][NextClassify]_vars

TypeOK ==
    /\ pc \in {"idle", "loop", "persist", "flag"}
    /\ nSheets \in 0..MaxSheets
    /\ startMode \in {"none", "force", "path", "resume", "fresh", "throw"}
    /\ outcome \in {"none", "suspended", "finished", "error"}
    /\ lastStep \in {"none", "file", "filesDone", "folder", "pop", "throw"}

----------------------------------------------------------------------------
(* Reference definitions for the properties *)

IsPrefix(s, t) == Len(s) <= Len(t) /\ SubSeq(t, 1, Len(s)) = s

Range(sq) == { sq[i] : i \in 1..Len(sq) }

\* the classification rule: private iff restricted and nobody else is named
IsPrivate(it) ==
    /\ it.access = "PRIVATE"
    /\ it.owner = EffectiveUser
    /\ Range(it.viewers) \subseteq {EffectiveUser}
    /\ Range(it.editors) \subseteq {EffectiveUser}

\* one uninterrupted run of the step function from iterator it
RECURSIVE RunToEnd(_, _, _)
RunToEnd(d, it, rows) ==
    IF it = <<>> THEN rows
    ELSE LET r == listFilesAndFolders(d, it, rows)
         IN  IF r.step = "throw" THEN rows ELSE RunToEnd(d, r.it, r.rows)

Uninterrupted(d) == RunToEnd(d, <<makeIterationFromFolder(d, RootFolder)>>, <<HeaderRow>>)

\* the kinds of step an uninterrupted run takes from iterator it, in order
RECURSIVE StepsFrom(_, _)
StepsFrom(d, it) ==
    IF it = <<>> THEN <<>>
    ELSE LET r == listFilesAndFolders(d, it, <<>>)
         IN  IF r.step = "throw" THEN <<"throw">> ELSE <<r.step>> \o StepsFrom(d, r.it)

\* pre-order, files before subfolders: the entries <<kind, folder, index>>
RECURSIVE VisitOrder(_, _), VisitFolders(_, _, _)
VisitOrder(d, f) ==
    [p \in 1..Len(d[f].files) |-> <<"File", f, p>>] \o VisitFolders(d, f, 1)
VisitFolders(d, f, c) ==
    IF c > Len(d[f].folders) THEN <<>>
    ELSE << <<"Folder", f, c>> >> \o VisitOrder(d, d[f].folders[c]) \o VisitFolders(d, f, c + 1)

\* the item of an entry, and the names of the folders from the root down to f
EntryItem(d, e) == IF e[1] = "File" THEN d[e[2]].files[e[3]] ELSE d[d[e[2]].folders[e[3]]].self

ParentOf(d, f) == CHOOSE g \in DOMAIN d : \E c \in 1..Len(d[g].folders) : d[g].folders[c] = f

RECURSIVE NamesTo(_, _)
NamesTo(d, f) ==
    IF f = RootFolder THEN <<d[f].self.name>>
    ELSE Append(NamesTo(d, ParentOf(d, f)), d[f].self.name)

\* the row the script writes for an entry: the joined folder names directly
\* followed by the item's name
EntryRow(d, e) ==
    << Join(NamesTo(d, e[2]), "/") \o <<EntryItem(d, e).name>>, e[1], "Shared" >>

RECURSIVE RowsOf(_, _)
RowsOf(d, entries) ==
    IF entries = <<>> THEN <<>>
    ELSE (IF IsPrivate(EntryItem(d, Head(entries))) THEN <<>> ELSE <<EntryRow(d, Head(entries))>>)
         \o RowsOf(d, Tail(entries))

Records(sh) == Tail(sh.rows)

----------------------------------------------------------------------------
(* C1: completeness.  Under the default configuration and strictly         *)
(* sequential executions on an unchanged tree, when the iteration is       *)
(* finished the sheet holds exactly the rows of one uninterrupted run, in  *)
(* the same order, however the executions were cut: nothing is missing and *)
(* nothing is written twice.                                               *)
C1_Completeness ==
    outcome = "finished" => sheet.rows = Uninterrupted(drive)

\* a traversal finished by its third execution or later, with several records
C1_Witness ==
    /\ outcome = "finished"
    /\ sheet.runs >= 3
    /\ Len(Records(sheet)) >= 3

C3_Ordering ==
    nSheets > 0 =>
      /\ IsPrefix(hist.visited, VisitOrder(drive, RootFolder))
      /\ Records(sheet) = RowsOf(drive, hist.visited)
      /\ outcome = "finished" => hist.visited = VisitOrder(drive, RootFolder)

\* finished over several executions: a file of the root, then its first
\* subfolder with that subfolder's file, then the second subfolder
C3_Witness ==
    /\ outcome = "finished"
    /\ sheet.runs >= 2
    /\ Len(drive[RootFolder].folders) = 2
    /\ hist.visited = << <<"File", 1, 1>>, <<"Folder", 1, 1>>, <<"File", 2, 1>>, <<"Folder", 1, 2>> >>
    /\ Len(Records(sheet)) = 4

NumFolders(d) == Cardinality(DOMAIN d)

RECURSIVE NumFilesTo(_, _)
NumFilesTo(d, n) == IF n = 0 THEN 0 ELSE Len(d[n].files) + NumFilesTo(d, n - 1)

C4_StepCount ==
    /\ hist.steps = hist.leaf + hist.child + hist.pop
    /\ outcome = "finished" =>
          /\ hist.leaf = NumFilesTo(drive, NumFolders(drive)) + NumFolders(drive)
          /\ hist.child = NumFolders(drive) - 1
          /\ hist.pop = NumFolders(drive)

(* C4: termination.  From a fresh one-iteration start with a budget that   *)
(* is never reached, the loop reaches the empty iterator; every call of    *)
(* the step function is exactly one of: a change of a file cursor (a file  *)
(* consumed, or the end of the files found), a subfolder pushed, or a pop, *)
(* so the number of calls is the sum of the three, and at the end it is    *)
(* (files + folders) + (folders - 1) + folders.                            *)
C4_Termination ==
    /\ []C4_StepCount
    /\ (pc = "loop") ~> (outcome = "finished" /\ recursiveIterator = <<>>)

\* a finished run over a tree of three folders and two files: ten calls
C4_Witness ==
    /\ outcome = "finished"
    /\ sheet.runs = 1
    /\ NumFolders(drive) = 3
    /\ hist.steps = 10 /\ hist.leaf = 5 /\ hist.child = 2 /\ hist.pop = 3

(* C5: after every execution in which the iterator became empty, the       *)
(* checkpoint slot is absent and the finished cell says "yes", whatever    *)
(* the timing of the budget check.                                         *)
C5_CheckpointAbsentAfterCompletion ==
    (pc = "idle" /\ outcome \in {"suspended", "finished"} /\ recursiveIterator = <<>>) =>
        (userProperties = Absent /\ sheet.finished = "yes")

\* the start of an execution has just been made: prepareIteration returned
\* or threw, and no call of listFilesAndFolders has followed
JustPrepared == startMode # "none" /\ lastStep = "none" /\ outcome \in {"none", "error"}

RootIteration(d) ==
    [folderName |-> d[RootFolder].self.name,
     fileIteratorContinuationToken |-> <<RootFolder, 0>>,
     folderIteratorContinuationToken |-> <<RootFolder, 0>>]

NewTable == [rows |-> <<HeaderRow>>, runs |-> 1, finished |-> "running"]

Segments(path) == SelectSeq(path, LAMBDA x : x # "/")

\* the folders the path names, walking down from the root
ResolvedBy(d, path) == { f \in DOMAIN d : Tail(NamesTo(d, f)) = Segments(path) }

\* the slot is absent or holds the text of a list of iterations
SlotIsCheckpoint(prop) == prop = Absent \/ JSON_parse(prop).kind = "array"

C6_Selection ==
    IF FORCE_NEW_ITERATION
    THEN /\ startMode' = "force"
         /\ recursiveIterator' = <<RootIteration(drive)>>
         /\ sheet' = NewTable /\ nSheets' = nSheets + 1
    ELSE IF START_FOLDER_PATH # <<>>
    THEN IF ResolvedBy(drive, START_FOLDER_PATH) = {}
         THEN startMode' = "throw" /\ sheet' = sheet /\ nSheets' = nSheets
         ELSE /\ startMode' = "path"
              /\ \E f \in ResolvedBy(drive, START_FOLDER_PATH) :
                    recursiveIterator' =
                       << [folderName |-> drive[f].self.name,
                           fileIteratorContinuationToken |-> <<f, 0>>,
                           folderIteratorContinuationToken |-> <<f, 0>>] >>
              /\ sheet' = NewTable /\ nSheets' = nSheets + 1
    ELSE IF userProperties.present
    THEN /\ startMode' = "resume"
         /\ recursiveIterator' = JSON_parse(userProperties).val
         /\ sheet'.rows = sheet.rows /\ nSheets' = nSheets
         /\ sheet'.finished = "running"
    ELSE /\ startMode' = "fresh"
         /\ recursiveIterator' = <<RootIteration(drive)>>
         /\ sheet' = NewTable /\ nSheets' = nSheets + 1

C7_ForceInAnyCase ==
    (FORCE_NEW_ITERATION /\ JustPrepared) =>
        /\ startMode = "force"
        /\ pc = "loop"
        /\ recursiveIterator = <<RootIteration(drive)>>
        /\ sheet = NewTable

(* C8: with the flag false and the path empty, a persisted empty list []   *)
(* makes the execution start a new iteration from the root: new table, one *)
(* iteration for the root.                                                 *)
C8_EmptyListStartsFresh ==
    (/\ JustPrepared
     /\ ~FORCE_NEW_ITERATION /\ START_FOLDER_PATH = <<>>
     /\ userProperties = Property(JSON_stringify(<<>>))) =>
        /\ startMode = "fresh"
        /\ recursiveIterator = <<RootIteration(drive)>>
        /\ sheet = NewTable

(* C9: classification.  getSharingAccess returns "Private" exactly when    *)
(* the access is PRIVATE, the owner is the effective user and no viewer    *)
(* and no editor is anybody else; otherwise "Shared".  So any other access *)
(* level gives "Shared", and a Private item with one more viewer who is    *)
(* somebody else is Shared.                                                *)
C9_Classification ==
    access # "none" =>
        /\ access \in {"Private", "Shared"}
        /\ access = "Private" <=> IsPrivate(item)
        /\ item.access # "PRIVATE" => access = "Shared"
        /\ access = "Private" =>
              getSharingAccess([item EXCEPT !.viewers = Append(@, "other")]) = "Shared"

\* a Private item that names the effective user as viewer twice and as editor
C9_Witness ==
    /\ access = "Private"
    /\ item.viewers = <<EffectiveUser, EffectiveUser>>
    /\ item.editors = <<EffectiveUser>>

\* the item at the cursor of the top iteration, if any
AtCursor(d, it) ==
    LET top == it[Len(it)]
        ftok == top.fileIteratorContinuationToken
        dtok == top.folderIteratorContinuationToken
    IN  IF ftok # NULL
        THEN IF ftok[2] < Len(d[ftok[1]].files)
             THEN <<d[ftok[1]].files[ftok[2] + 1]>> ELSE <<>>
        ELSE IF dtok # NULL /\ dtok[2] < Len(d[dtok[1]].folders)
             THEN <<d[d[dtok[1]].folders[dtok[2] + 1]].self>> ELSE <<>>

C10_StepRows ==
    LET consumed == AtCursor(drive, recursiveIterator)
    IN  IF consumed # <<>> /\ ~IsPrivate(consumed[1])
        THEN /\ Len(sheet'.rows) = Len(sheet.rows) + 1
             /\ SubSeq(sheet'.rows, 1, Len(sheet.rows)) = sheet.rows
             /\ LET row == sheet'.rows[Len(sheet'.rows)]
                IN  /\ row[1][Len(row[1])] = consumed[1].name
                    /\ row[3] = "Shared"
             /\ lastStep' \in {"file", "folder"}
        ELSE /\ sheet'.rows = sheet.rows
             /\ consumed = <<>> => lastStep' \in {"filesDone", "pop"}

(* C10: a call of the step function leaves the rows as they are or appends *)
(* exactly one row; it appends one exactly when it consumed an item and    *)
(* that item is not private, and the row then ends in that item's name and *)
(* says "Shared"; a call that finds a listing exhausted or pops appends    *)
(* nothing.                                                                *)
C10_AtMostOneRow ==
    [][(pc = "loop" /\ recursiveIterator # <<>>) => C10_StepRows]_vars

\* a call consumed a private subfolder and wrote nothing, after an earlier row
C10_Witness ==
    /\ lastStep = "folder"
    /\ access = "Private"
    /\ Len(sheet.rows) = 2

----------------------------------------------------------------------------
\* the row of an entry with the folder path and the item name joined by "/"
EntryRowSeparated(d, e) ==
    << Join(Append(NamesTo(d, e[2]), EntryItem(d, e).name), "/"), e[1], "Shared" >>

RECURSIVE RowsSeparatedOf(_, _)
RowsSeparatedOf(d, entries) ==
    IF entries = <<>> THEN <<>>
    ELSE (IF IsPrivate(EntryItem(d, Head(entries))) THEN <<>>
          ELSE <<EntryRowSeparated(d, Head(entries))>>)
         \o RowsSeparatedOf(d, Tail(entries))

(* C11: record path format.  The path of every record is the names of the *)
(* iterations from the bottom of the iterator up to the top one, joined by *)
(* "/", then "/" and the item's name.                                      *)
C11_PathFormat ==
    nSheets > 0 => Records(sheet) = RowsSeparatedOf(drive, hist.visited)

RECURSIVE CountShared(_, _)
CountShared(d, entries) ==
    IF entries = <<>> THEN 0
    ELSE (IF IsPrivate(EntryItem(d, Head(entries))) THEN 0 ELSE 1)
         + CountShared(d, Tail(entries))

ItemName(row) == row[1][Len(row[1])]

(* C12: a private subfolder gets no row but is descended into.  The call   *)
(* that discovers a subfolder pushes an iteration for it whatever its      *)
(* classification; when the traversal is finished every entry that is not  *)
(* private has its row, also below private folders, and there are no other *)
(* rows; for the scenario tree the rows are a.txt and then b.txt of sub.    *)
C12_PrivateFolderDescended ==
    /\ (lastStep = "folder" /\ pc = "loop") =>
          /\ Len(recursiveIterator) >= 2
          /\ recursiveIterator[Len(recursiveIterator)].folderName = item.name
          /\ recursiveIterator[Len(recursiveIterator)].fileIteratorContinuationToken # NULL
          /\ access = "Private" =>
                (Records(sheet) = <<>> \/
                 Records(sheet)[Len(Records(sheet))]
                    # EntryRow(drive, hist.visited[Len(hist.visited)]))
    /\ outcome = "finished" =>
          /\ \A i \in 1..Len(VisitOrder(drive, RootFolder)) :
                LET e == VisitOrder(drive, RootFolder)[i]
                IN  ~IsPrivate(EntryItem(drive, e)) =>
                        EntryRow(drive, e) \in Range(Records(sheet))
          /\ Len(Records(sheet)) = CountShared(drive, VisitOrder(drive, RootFolder))
          /\ drive = ScenarioDrive =>
                /\ Len(Records(sheet)) = 2
                /\ ItemName(Records(sheet)[1]) = "a.txt" /\ Records(sheet)[1][2] = "File"
                /\ ItemName(Records(sheet)[2]) = "b.txt" /\ Records(sheet)[2][2] = "File"

\* the scenario tree finished in a later execution: sub is private and has no
\* row, its file b.txt has one
C12_Witness ==
    /\ outcome = "finished"
    /\ drive = ScenarioDrive
    /\ sheet.runs >= 2
    /\ IsPrivate(drive[2].self)
    /\ Len(Records(sheet)) = 2

----------------------------------------------------------------------------
(* C16: run counter.  A fresh start sets "Number of runs" to 1 and every   *)
(* execution that resumes adds exactly one, so after the k-th execution of *)
(* a traversal the cell holds k; the loop passes, the suspension and the   *)
(* end of the iteration leave the cell alone.                              *)
C16_RunCounter ==
    /\ [](nSheets > 0 => sheet.runs = hist.execs)
    /\ [][pc = "idle" =>
            sheet'.runs = IF startMode' = "resume" THEN sheet.runs + 1 ELSE 1]_vars
    /\ [][pc = "loop" => sheet'.runs = sheet.runs]_vars

\* the third execution of a traversal has been suspended
C16_Witness ==
    /\ outcome = "suspended"
    /\ startMode = "resume"
    /\ hist.execs = 3
    /\ sheet.runs = 3

(* C19: the user property never holds the text of an empty iterator: a     *)
(* zero-length stack is never written to the slot.                         *)
C19_EmptyStackNeverWritten ==
    userProperties # Property(JSON_stringify(<<>>))

Min(a, b) == IF a <= b THEN a ELSE b

(* C20: cursor discipline of an iteration.  A file token that is null      *)
(* stays null for as long as the iteration is in the iterator, and the     *)
(* folder token is read (a subfolder discovered or the iteration popped)   *)
(* or advanced only by a call that found the file token already null.      *)
C20_CursorDiscipline ==
    [][ /\ \A i \in 1..Min(Len(recursiveIterator), Len(recursiveIterator')) :
              /\ recursiveIterator[i].fileIteratorContinuationToken = NULL
                    => recursiveIterator'[i].fileIteratorContinuationToken = NULL
              /\ recursiveIterator'[i].folderIteratorContinuationToken
                    # recursiveIterator[i].folderIteratorContinuationToken
                    => recursiveIterator[i].fileIteratorContinuationToken = NULL
        /\ (pc = "loop" /\ lastStep' \in {"folder", "pop"} /\ recursiveIterator # <<>>)
              => recursiveIterator[Len(recursiveIterator)].fileIteratorContinuationToken = NULL
      ]_vars

\* a call has advanced the folder token of an iteration whose file token is
\* null, after earlier calls had consumed files of that iteration
C20_Witness ==
    /\ lastStep = "folder"
    /\ hist.leaf >= 2
    /\ Len(recursiveIterator) >= 2
    /\ recursiveIterator[1].fileIteratorContinuationToken = NULL
    /\ recursiveIterator[1].folderIteratorContinuationToken = Token(RootFolder, 1)

----------------------------------------------------------------------------
(* The suspension of main, statement by statement.  Pass takes lines       *)
(* 128-141 as one step; here the call with the budget test (129-133), the  *)
(* setProperty of line 135 and the setValue of line 136 are separate       *)
(* steps, so that the order of the two writes is visible.                  *)

TimeLimitStrict(elapsedTimeInMS) == elapsedTimeInMS > MAX_EXECUTION_TIME_IN_MS

\* main, line 132
TimeLimitExceeded(elapsedTimeInMS) == elapsedTimeInMS >= MAX_EXECUTION_TIME_IN_MS

\* main, lines 128-133: the call and the budget test after it
Call(ms) ==
    /\ pc = "loop"
    /\ Len(recursiveIterator) > 0
    /\   LET r == listFilesAndFolders(drive, recursiveIterator, sheet.rows)
             elapsedTimeInMS == elapsed + ms
         IN  /\ lastStep' = r.step
             /\ item' = r.item
             /\ access' = r.access
             /\ hist' = Observe(hist, recursiveIterator, r.it)
             /\ recursiveIterator' = r.it
             /\ IF r.step = "throw"
                THEN /\ pc' = "idle"
                     /\ outcome' = "error"
                     /\ UNCHANGED <<sheet, elapsed>>
                ELSE /\ sheet' = [sheet EXCEPT !.rows = r.rows]
                     /\ pc' = IF TimeLimitExceeded(elapsedTimeInMS) THEN "persist" ELSE "loop"
                     /\ outcome' = "none"
                     /\ elapsed' = elapsedTimeInMS
    /\ UNCHANGED <<other, drive, FORCE_NEW_ITERATION, START_FOLDER_PATH, userProperties,
                   nSheets, startMode>>

MainCall == \E ms \in StepDurations : Call(ms)

\* main, line 135
PersistIterator ==
    /\ pc = "persist"
    /\ userProperties' = Property(JSON_stringify(recursiveIterator))
    /\ pc' = "flag"
    /\ hist' = Written(hist)
    /\ UNCHANGED <<other, drive, FORCE_NEW_ITERATION, START_FOLDER_PATH, sheet, nSheets,
                   recursiveIterator, elapsed, item, access, lastStep, startMode,
                   outcome>>

\* main, lines 136-138
WriteNotFinished ==
    /\ pc = "flag"
    /\ sheet' = [sheet EXCEPT !.finished = "no"]
    /\ pc' = "idle"
    /\ outcome' = "suspended"
    /\ UNCHANGED <<other, drive, FORCE_NEW_ITERATION, START_FOLDER_PATH, userProperties,
                   nSheets, recursiveIterator, elapsed, item, access, lastStep,
                   startMode, hist>>

InitSuspend ==
    /\ drive \in CfgDriveSet
    /\ FORCE_NEW_ITERATION = FALSE
    /\ START_FOLDER_PATH = <<>>
    /\ userProperties = Absent
    /\ sheet = BlankSheet
    /\ nSheets = 0
    /\ pc = "idle"
    /\ recursiveIterator = <<>>
    /\ elapsed = 0
    /\ item = NoItem
    /\ access = "none"
    /\ lastStep = "none"
    /\ startMode = "none"
    /\ outcome = "none"
    /\ hist = NoHist
    /\ other = OtherIdle

NextSuspend == MainPrepare \/ MainCall \/ PersistIterator \/ WriteNotFinished \/ MainFinish

SpecSuspend == InitSuspend /\ [][NextSuspend]_vars

(* C13: budgeted suspension.  The budget is tested only after a completed  *)
(* call of the step function; when the elapsed time has reached the budget *)
(* the execution writes the iterator exactly as that call left it to the   *)
(* slot, then sets the flag to "no", and ends without a further call.      *)
C13_BudgetedSuspend ==
    /\ [](pc = "loop" => elapsed < MAX_EXECUTION_TIME_IN_MS)
    /\ [][ /\ pc = "loop" =>
                ((pc' = "persist") <=>
                    /\ hist'.steps = hist.steps + 1
                    /\ lastStep' # "throw"
                    /\ elapsed' >= MAX_EXECUTION_TIME_IN_MS)
           /\ pc = "loop" => userProperties' = userProperties \/ outcome' = "finished"
           /\ pc = "persist" =>
                /\ userProperties' = Property(JSON_stringify(recursiveIterator))
                /\ sheet' = sheet /\ sheet.finished = "running"
                /\ pc' = "flag"
           /\ pc = "flag" =>
                /\ userProperties' = userProperties
                /\ userProperties = Property(JSON_stringify(recursiveIterator))
                /\ sheet' = [sheet EXCEPT !.finished = "no"]
                /\ pc' = "idle" /\ outcome' = "suspended"
           /\ pc \in {"persist", "flag"} =>
                /\ recursiveIterator' = recursiveIterator
                /\ hist'.steps = hist.steps /\ hist'.visited = hist.visited
                /\ sheet'.rows = sheet.rows
         ]_vars

\* an execution that made several calls has written the iterator and then "no"
C13_Witness ==
    /\ pc = "idle"
    /\ outcome = "suspended"
    /\ sheet.finished = "no"
    /\ hist.steps >= 3
    /\ Len(recursiveIterator) >= 2
    /\ userProperties = Property(JSON_stringify(recursiveIterator))

----------------------------------------------------------------------------
\* the step ends an execution with an exception
Aborts == pc' = "idle" /\ outcome' = "error"

(* C14: fatal-error policy.  An execution that ends with an exception      *)
(* (text that does not parse, start path that names no folder, iteration   *)
(* with both tokens null) writes neither "yes" nor "no" to the flag and    *)
(* neither writes nor deletes the slot: only a suspension or the end of    *)
(* the iteration does.  The slot keeps its value, and with the default     *)
(* configuration the next execution resumes from it.                       *)
C14_FatalErrorPolicy ==
    [][ /\ Aborts => /\ userProperties' = userProperties
                     /\ sheet'.finished = sheet.finished
                     /\ sheet'.rows = sheet.rows
        /\ userProperties' # userProperties => outcome' \in {"suspended", "finished"}
        /\ (sheet'.finished \in {"yes", "no"} /\ sheet'.finished # sheet.finished)
              => outcome' \in {"suspended", "finished"}
        /\ (/\ pc = "idle" /\ outcome = "error"
            /\ ~FORCE_NEW_ITERATION /\ START_FOLDER_PATH = <<>>
            /\ JSON_parse(userProperties).kind = "array")
              => /\ startMode' = "resume"
                 /\ recursiveIterator' = JSON_parse(userProperties).val
      ]_vars

\* executions that resumed the same slot value several times, appended rows
\* and ended with "Iterator failure": the flag is still "running" and the slot
\* holds what it held
C14_Witness ==
    /\ pc = "idle" /\ outcome = "error"
    /\ lastStep = "throw"
    /\ sheet.runs >= 3
    /\ sheet.finished = "running"
    /\ Len(sheet.rows) >= 3
    /\ userProperties =
          Property(JSON_stringify(<<ExhaustedIteration, makeIterationFromFolder(drive, 2)>>))

----------------------------------------------------------------------------
\* the slot holds a text that is not the text of a list of iterations: it does
\* not parse, is no list, or lists an object that lacks a member
StructurallyInvalid(prop) ==
    /\ prop.present
    /\ LET parsed == JSON_parse(prop)
       IN  \/ parsed.kind \in {"SyntaxError", "object"}
           \/ /\ parsed.kind = "array"
              /\ \E i \in 1..Len(parsed.val) :
                    \/ parsed.val[i].fileIteratorContinuationToken = UNDEFINED
                    \/ parsed.val[i].folderIteratorContinuationToken = UNDEFINED

(* C17: checkpoint loading.  With the default configuration an absent slot *)
(* gives a fresh start from the root; a structurally invalid text makes    *)
(* the execution end with an exception before a row is appended and before *)
(* listFilesAndFolders is called on it, and is never accepted as the       *)
(* iterator of the loop.                                                   *)
C17_CheckpointLoading ==
    (~FORCE_NEW_ITERATION /\ START_FOLDER_PATH = <<>> /\ startMode # "none") =>
        /\ (JustPrepared /\ ~userProperties.present) =>
              /\ startMode = "fresh"
              /\ recursiveIterator = <<RootIteration(drive)>>
              /\ sheet = NewTable
        /\ StructurallyInvalid(userProperties) =>
              /\ startMode = "throw"
              /\ outcome = "error"
              /\ hist.steps = 0
              /\ sheet = SheetOf(drive, userProperties)

----------------------------------------------------------------------------
(* C18: start-path resolution.  With the flag false and a start path, the  *)
(* path is resolved name by name from the root.  If every name resolves,   *)
(* the execution starts with one iteration, for the folder found; if a     *)
(* name does not resolve, the execution ends with an exception and has     *)
(* inserted no table and changed neither a status cell nor the slot.       *)
C18_StartPathResolution ==
    (~FORCE_NEW_ITERATION /\ START_FOLDER_PATH # <<>> /\ JustPrepared) =>
        IF ResolvedBy(drive, START_FOLDER_PATH) # {}
        THEN /\ startMode = "path"
             /\ pc = "loop"
             /\ \E f \in ResolvedBy(drive, START_FOLDER_PATH) :
                   recursiveIterator = <<makeIterationFromFolder(drive, f)>>
             /\ sheet = NewTable
        ELSE /\ startMode = "throw"
             /\ pc = "idle" /\ outcome = "error"
             /\ userProperties \in SlotSet(drive)
             /\ sheet = SheetOf(drive, userProperties)
             /\ nSheets = IF userProperties = Absent THEN 0 ELSE 1

----------------------------------------------------------------------------
(* Two executions of main that may overlap, for instance one started by    *)
(* hand while a time trigger fires.  They share the user properties and    *)
(* the sheet; each has its own recursiveIterator and start time.  The      *)
(* steps are those of main: prepareIteration, one loop pass, the end of    *)
(* the iteration.  The second execution starts only while a checkpoint     *)
(* exists, and the first one starts a new iteration only while the second  *)
(* is not running, so both always write to the same sheet.                 *)

MaxOverlapRuns == 4

FirstPrepare ==
    /\ sheet.runs < MaxOverlapRuns
    /\ other.pc = "idle" \/ userProperties.present
    /\ MainPrepare

\* main, lines 113-126, in the second execution
OtherPrepare ==
    /\ other.pc = "idle"
    /\ userProperties.present
    /\ sheet.runs < MaxOverlapRuns
    /\ LET r == prepareIteration(drive, FORCE_NEW_ITERATION, START_FOLDER_PATH,
                                 userProperties, sheet)
       IN  /\ r.mode = "resume"
           /\ sheet' = r.sheet
           /\ other' = [pc |-> "loop", recursiveIterator |-> r.it, elapsed |-> 0,
                        calls |-> 0, outcome |-> "none"]
           /\ hist' = [hist EXCEPT !.execs = @ + 1,
                                   !.overlap = @ \/ pc = "loop",
                                   !.unread = FALSE]
    /\ UNCHANGED <<drive, FORCE_NEW_ITERATION, START_FOLDER_PATH, userProperties,
                   nSheets, pc, recursiveIterator, elapsed, item, access, lastStep,
                   startMode, outcome>>

\* main, lines 128-141, in the second execution
OtherPass(ms) ==
    /\ other.pc = "loop"
    /\ Len(other.recursiveIterator) > 0
    /\   LET r == listFilesAndFolders(drive, other.recursiveIterator, sheet.rows)
             elapsedTimeInMS == other.elapsed + ms
             timeLimitExceeded == elapsedTimeInMS >= MAX_EXECUTION_TIME_IN_MS
         IN  IF r.step = "throw"
             THEN /\ other' = [other EXCEPT !.pc = "idle", !.outcome = "error",
                                            !.calls = @ + 1]
                  /\ hist' = Observe(hist, other.recursiveIterator, r.it)
                  /\ UNCHANGED <<sheet, userProperties>>
             ELSE IF timeLimitExceeded
             THEN /\ userProperties' = Property(JSON_stringify(r.it))
                  /\ sheet' = [sheet EXCEPT !.rows = r.rows, !.finished = "no"]
                  /\ other' = [pc |-> "idle", recursiveIterator |-> r.it,
                               elapsed |-> elapsedTimeInMS, calls |-> other.calls + 1,
                               outcome |-> "suspended"]
                  /\ hist' = Written(Observe(hist, other.recursiveIterator, r.it))
             ELSE /\ sheet' = [sheet EXCEPT !.rows = r.rows]
                  /\ other' = [pc |-> "loop", recursiveIterator |-> r.it,
                               elapsed |-> elapsedTimeInMS, calls |-> other.calls + 1,
                               outcome |-> "none"]
                  /\ hist' = Observe(hist, other.recursiveIterator, r.it)
                  /\ UNCHANGED userProperties
    /\ UNCHANGED <<drive, FORCE_NEW_ITERATION, START_FOLDER_PATH, nSheets, pc,
                   recursiveIterator, elapsed, item, access, lastStep, startMode,
                   outcome>>

OtherStep == \E ms \in StepDurations : OtherPass(ms)

\* main, lines 128 and 143-145, in the second execution
OtherFinish ==
    /\ other.pc = "loop"
    /\ Len(other.recursiveIterator) = 0
    /\ userProperties' = Absent
    /\ sheet' = [sheet EXCEPT !.finished = "yes"]
    /\ other' = [other EXCEPT !.pc = "idle", !.outcome = "finished"]
    /\ hist' = Deleted(hist)
    /\ UNCHANGED <<drive, FORCE_NEW_ITERATION, START_FOLDER_PATH, nSheets, pc,
                   recursiveIterator, elapsed, item, access, lastStep, startMode,
                   outcome>>

NextOverlap ==
    FirstPrepare \/ MainStep \/ MainFinish \/ OtherPrepare \/ OtherStep \/ OtherFinish

SpecOverlap == InitSuspend /\ [][NextOverlap]_vars

\* some entry was consumed twice
VisitedTwice ==
    \E i, j \in 1..Len(hist.visited) : i < j /\ hist.visited[i] = hist.visited[j]

(* C15: executions must be serialized.  Two executions that both read the  *)
(* slot before either writes (the second reads while the first has made no *)
(* call yet and the slot was not written since it was last read) resume    *)
(* from the same iterator; each appends                                    *)
(* its rows, and a suspension writes the iterator of the execution that    *)
(* suspends over whatever the slot holds.  As long as no execution has     *)
(* started while another was running, no entry is consumed twice and no    *)
(* written checkpoint is overwritten or deleted unread.                    *)
C15_Serialization ==
    /\ [][ /\ (/\ pc = "idle" /\ pc' = "loop"
               /\ other.pc = "loop" /\ other.calls = 0 /\ ~hist.unread)
                => recursiveIterator' = other.recursiveIterator
           /\ (/\ other.pc = "idle" /\ other'.pc = "loop"
               /\ pc = "loop" /\ lastStep = "none" /\ ~hist.unread)
                => other'.recursiveIterator = recursiveIterator
           /\ (other.pc = "loop" /\ other'.outcome = "suspended")
                => userProperties' = Property(JSON_stringify(other'.recursiveIterator))
           /\ (pc = "loop" /\ outcome' = "suspended")
                => userProperties' = Property(JSON_stringify(recursiveIterator'))
         ]_vars
    /\ [](~hist.overlap =>
             /\ ~hist.lost
             /\ ~VisitedTwice
             /\ IsPrefix(hist.visited, VisitOrder(drive, RootFolder))
             /\ nSheets > 0 => Records(sheet) = RowsOf(drive, hist.visited))

\* two overlapping executions resumed the same iterator: a row stands twice in
\* the sheet, and the suspension of one overwrote the checkpoint of the other
C15_Witness ==
    /\ hist.overlap
    /\ hist.lost
    /\ VisitedTwice
    /\ \E i, j \in 1..Len(Records(sheet)) : i < j /\ Records(sheet)[i] = Records(sheet)[j]
    /\ outcome = "suspended" /\ other.outcome = "suspended"
    /\ pc = "idle" /\ other.pc = "idle"
    /\ recursiveIterator # other.recursiveIterator

----------------------------------------------------------------------------
(* C23: shape of the iterator.  In every iterator reached from a fresh     *)
(* start with one iteration, within an execution or across suspension and  *)
(* resumption, every iteration below the top one has a null file token and *)
(* a folder token that is not null, so only the top one can have a file    *)
(* token; a call changes the length by at most one: plus one when it       *)
(* descends, minus one when it pops, zero otherwise.                       *)
C23_StackShape ==
    /\ [](\A i \in 1..(Len(recursiveIterator) - 1) :
             /\ recursiveIterator[i].fileIteratorContinuationToken = NULL
             /\ recursiveIterator[i].folderIteratorContinuationToken # NULL)
    /\ [][hist'.steps = hist.steps + 1 =>
            Len(recursiveIterator') - Len(recursiveIterator) =
               CASE lastStep' = "folder" -> 1
                 [] lastStep' = "pop"    -> -1
                 [] OTHER                -> 0]_vars
    /\ [][(startMode' = "resume" /\ pc = "idle") =>
            Len(recursiveIterator') = Len(recursiveIterator)]_vars

\* a resumed execution works on the files of a folder two levels below the root
C23_Witness ==
    /\ startMode = "resume"
    /\ pc = "loop"
    /\ lastStep = "file"
    /\ Len(recursiveIterator) = 3
    /\ recursiveIterator[3].fileIteratorContinuationToken # NULL
    /\ recursiveIterator[2].fileIteratorContinuationToken = NULL

(* C24: "Iterator failure" is unreachable from a fresh start.  In a        *)
(* traversal that starts with one iteration for the root, over every tree, *)
(* no call throws: whenever the loop is about to call listFilesAndFolders  *)
(* the top iteration has a file token or a folder token, also for folders  *)
(* without files, without subfolders or without both, and after the last   *)
(* subfolder of a folder was drained and popped.                           *)
C24_NoIteratorFailure ==
    /\ lastStep # "throw"
    /\ outcome # "error"
    /\ (pc = "loop" /\ recursiveIterator # <<>>) =>
          LET top == recursiveIterator[Len(recursiveIterator)]
          IN  \/ top.fileIteratorContinuationToken # NULL
              \/ top.folderIteratorContinuationToken # NULL

\* the pop of an empty subfolder, the last one of its parent, has uncovered
\* the parent, whose files were exhausted before
C24_Witness ==
    /\ pc = "loop"
    /\ lastStep = "pop"
    /\ Len(recursiveIterator) >= 1
    /\ LET top == recursiveIterator[Len(recursiveIterator)]
           dtok == top.folderIteratorContinuationToken
       IN  /\ top.fileIteratorContinuationToken = NULL
           /\ dtok # NULL
           /\ dtok[2] = Len(drive[dtok[1]].folders)
           /\ dtok[2] >= 1
           /\ LET child == drive[dtok[1]].folders[dtok[2]]
              IN  drive[child].files = <<>> /\ drive[child].folders = <<>>

----------------------------------------------------------------------------
(* Every configuration, starting without a checkpoint: the slot only ever  *)
(* holds what an execution persisted.                                      *)
InitRestart ==
    /\ drive \in CfgDriveSet
    /\ FORCE_NEW_ITERATION \in BOOLEAN
    /\ START_FOLDER_PATH \in PathSet
    /\ userProperties = Absent
    /\ sheet = BlankSheet
    /\ nSheets = 0
    /\ pc = "idle"
    /\ recursiveIterator = <<>>
    /\ elapsed = 0
    /\ item = NoItem
    /\ access = "none"
    /\ lastStep = "none"
    /\ startMode = "none"
    /\ outcome = "none"
    /\ hist = NoHist
    /\ other = OtherIdle

SpecRestart == InitRestart /\ [][Next]_vars

\* the folder a configured execution starts from
StartFolder ==
    IF FORCE_NEW_ITERATION THEN RootFolder
    ELSE CHOOSE f \in ResolvedBy(drive, START_FOLDER_PATH) : TRUE

Configured == FORCE_NEW_ITERATION \/ START_FOLDER_PATH # <<>>

(* C21: with a start path or with the force flag, every execution drops    *)
(* the persisted checkpoint and starts again from the first call on its    *)
(* start folder, so the iteration is finished only by an execution that    *)
(* made all calls of the traversal itself: if they do not fit into one     *)
(* budget, no number of executions finishes it.  Only with the path empty  *)
(* and the flag false does an execution continue from the persisted        *)
(* iterator.                                                               *)
C21_ConfiguredRestarts ==
    /\ [][(pc = "idle" /\ Configured /\ startMode' # "throw") =>
            /\ recursiveIterator' = <<makeIterationFromFolder(drive, StartFolder)>>
            /\ sheet' = NewTable
            /\ hist'.steps = 0 /\ hist'.visited = <<>>]_vars
    /\ []((Configured /\ outcome = "finished") =>
            /\ sheet.runs = 1
            /\ hist.visited = VisitOrder(drive, StartFolder)
            /\ hist.steps = Len(StepsFrom(drive, <<makeIterationFromFolder(drive, StartFolder)>>))
            /\ elapsed < MAX_EXECUTION_TIME_IN_MS)
    /\ [][(pc = "idle" /\ ~Configured /\ userProperties.present) =>
            /\ startMode' = "resume"
            /\ recursiveIterator' = JSON_parse(userProperties).val]_vars

\* the second execution with a start path was suspended like the first one:
\* it started again from the folder of the path, in a new table
C21_Witness ==
    /\ ~FORCE_NEW_ITERATION
    /\ START_FOLDER_PATH = <<"sub">>
    /\ startMode = "path"
    /\ outcome = "suspended"
    /\ nSheets = 2
    /\ sheet.runs = 1
    /\ hist.steps = 1
    /\ userProperties.present

(* C25: the finished state is not stable.  After an execution has written  *)
(* "yes" and deleted the slot, the next execution with the default         *)
(* configuration finds no checkpoint and starts a complete new traversal   *)
(* from the root in a new table with run count 1 and flag "running"; no    *)
(* execution leaves the sheet as it found it.                              *)
C25_FinishedNotStable ==
    /\ [](outcome = "finished" => (~userProperties.present /\ sheet.finished = "yes"))
    /\ [][(pc = "idle" /\ outcome = "finished") =>
            /\ startMode' = "fresh"
            /\ recursiveIterator' = <<RootIteration(drive)>>
            /\ sheet' = NewTable
            /\ nSheets' = nSheets + 1
            /\ pc' = "loop"]_vars
    /\ [][pc = "idle" => sheet' # sheet]_vars
    /\ []((outcome = "finished" /\ nSheets >= 2) => sheet.rows = Uninterrupted(drive))

\* the second traversal after a finished one is finished too, in a second table
C25_Witness ==
    /\ outcome = "finished"
    /\ nSheets = 2
    /\ sheet.finished = "yes"
    /\ Len(sheet.rows) >= 3
    /\ ~userProperties.present

----------------------------------------------------------------------------
(* Executions that keep coming: the script is run again after every        *)
(* execution (time-based trigger, lines 5-8), and a running execution goes *)
(* on with its loop.  A call that takes MaxStepMs reaches the budget at    *)
(* once, as every call does with a budget of zero.                         *)
SpecProgress ==
    /\ InitSuspend
    /\ [][Next]_vars
    /\ WF_vars(MainPrepare) /\ WF_vars(MainStep) /\ WF_vars(MainFinish)

Completed == outcome = "finished" /\ ~userProperties.present /\ sheet.finished = "yes"

====
